---- MODULE Spec2Model ----
(***************************************************************************)
(* Build-unit locking of cargo (src/cargo/core/compiler/locking.rs).       *)
(*                                                                         *)
(* Several processes, each with several threads, take CompilationLocks on  *)
(* build units.  A unit has two lock files, partial.lock and full.lock.    *)
(* Inside one process every lock file is interned as one RcFileLock        *)
(* (mutex + condvar + exclusive flag + share_count) around one open file;  *)
(* between processes the files are locked with whole-file advisory locks   *)
(* (std::fs::File::lock / lock_shared / unlock).                           *)
(*                                                                         *)
(* A step of the model is one critical section of the code: the part of a  *)
(* method that runs with the RcFileLock mutex (or the interner mutex)      *)
(* held, up to the next point where the thread can block (mutex, condvar,  *)
(* OS lock).  The RcFileLock mutex stays held while a thread is blocked in *)
(* the OS call, as in the code.                                            *)
(*                                                                         *)
(* OS contract assumed (locking.rs:514-520): a lock call on a file that    *)
(* this open file already holds converts the held lock to the new mode in  *)
(* one step.                                                               *)
(*                                                                         *)
(* Specifications:                                                         *)
(*   Spec, FairSpec  the CompilationLocks of several threads and processes *)
(*   ModeSpec        LockingStrategy::determine_locking_strategy           *)
(*   OrderSpec       CompilationLock::new and the order in which           *)
(*                   CompilationLock::lock takes its locks, larger graphs  *)
(*   InternSpec      FileLockInterner::get_or_create_lock, statement by    *)
(*                   statement, with its mutex                             *)
(***************************************************************************)
EXTENDS Integers, Sequences, FiniteSets, TLC

\* ------------------------------------------------------------- bounds
NumProcs == 2
NumUnits == 2
NumWorkers == 3
MaxFail == 1
MaxTotalUnits == 2
MaxLimit == 21
NumOrderUnits == 4
NumThreads == 2
NumPaths == 2
MaxCalls == 2

Procs == 1..NumProcs
Units == 1..NumUnits
Workers == 1..NumWorkers
Kinds == {"partial", "full"}
Files == Units \X Kinds
Locks == Procs \X Files
Modes == {"un", "sh", "ex"}
NoTgt == [u |-> 0, k |-> "none", m |-> "none"]
NoCl == [proc |-> 0, unit |-> 0, order |-> << >>]

VARIABLES
    unit_deps,    \* the unit graph: unit -> its direct dependencies
    pc,           \* worker -> where its thread is
    cl,           \* worker -> its CompilationLock (process, unit, dependency_units)
    ty,           \* worker -> SharedLockType passed to CompilationLock::lock
    tgt,          \* worker -> the RcFileLock call in progress (unit, file, mode)
    idx,          \* worker -> number of dependency_units already locked
    guard,        \* worker -> unit -> UnitLock.guard ("none", "p", "pf"; "f" inside drop)
    held,         \* worker -> file -> logical lock acquired and not yet released
    interned,     \* process -> files in the FileLockInterner map
    mtx,          \* RcFileLock.inner mutex: 0 free, -1 poisoned, else the worker holding it
    exclusive,    \* RcFileLockInner.exclusive
    share_count,  \* RcFileLockInner.share_count
    os,           \* mode of the OS lock the process's open file holds
    fails,        \* number of faults so far: failed OS calls, calls made out of state
    late,         \* worker -> the <<unit, builder>> for which it called lock_shared on the
                  \* unit while the builder held it in Building Non-Exclusive
    \* --- LockingStrategy::determine_locking_strategy (ModeSpec)
    ws,           \* what the call reads of the workspace and the build context
    sys,          \* how the system calls made by the call end (ok or error)
    nofile,       \* RLIMIT_NOFILE of the process: soft_limit, hard_limit
    strategy,     \* the call's result
    set_calls,    \* the arguments of the calls of set_max_file_descriptors so far
    locking_mode, \* the result of a call of determine_locking_mode
    \* --- CompilationLock::new and the order of CompilationLock::lock (OrderSpec)
    unit_graph,   \* unit -> its direct dependencies
    clock,        \* the CompilationLock: unit, dependency_units
    locked,       \* the units locked so far by CompilationLock::lock, in order
    \* --- FileLockInterner::get_or_create_lock, statement by statement (InternSpec)
    ipc,          \* thread -> where it is in get_or_create_lock
    ipath,        \* thread -> the path it passed
    icalls,       \* thread -> number of calls it has made
    imtx,         \* GLOBAL.locks mutex: 0 free, else the thread holding it
    locks,        \* GLOBAL.locks: path -> RcFileLock object, 0 for no entry
    objects,      \* number of RcFileLock objects created so far
    opened,       \* path -> number of successful open_file calls
    returned,     \* the <<path, object>> of every call that has returned Ok
    \* --- LayoutTree::parse and LayoutTree::to_string (LayoutSpec)
    target_os,    \* the platform the test support crate is built for
    input,        \* the tree text handed to LayoutTree::parse
    layout_tree,  \* the LayoutTree that parse returned
    result_string,\* what to_string returned for layout_tree
    lpc           \* how far the round trip is: "text", "parsed", "printed"

lock_vars == <<unit_deps, pc, cl, ty, tgt, idx, guard, held, interned, mtx, exclusive,
               share_count, os, fails, late>>
mode_vars == <<ws, sys, nofile, strategy, set_calls, locking_mode>>
order_vars == <<unit_graph, clock, locked>>
intern_vars == <<ipc, ipath, icalls, imtx, locks, objects, opened, returned>>
layout_vars == <<target_os, input, layout_tree, result_string, lpc>>
aux_vars == <<mode_vars, order_vars, intern_vars, layout_vars>>
vars == <<lock_vars, aux_vars>>

\* Each specification below runs one part of the module; the state of the other
\* parts is parked.
ModeOff ==
    /\ ws = "off" /\ sys = "off" /\ nofile = "off" /\ strategy = "off" /\ set_calls = "off"
    /\ locking_mode = "off"
OrderOff == unit_graph = "off" /\ clock = "off" /\ locked = "off"
InternOff ==
    /\ ipc = "off" /\ ipath = "off" /\ icalls = "off" /\ imtx = "off"
    /\ locks = "off" /\ objects = "off" /\ opened = "off" /\ returned = "off"
LayoutOff ==
    /\ target_os = "off" /\ input = "off" /\ layout_tree = "off" /\ result_string = "off"
    /\ lpc = "off"
LockOff ==
    /\ unit_deps = "off" /\ pc = "off" /\ cl = "off" /\ ty = "off" /\ tgt = "off"
    /\ idx = "off" /\ guard = "off" /\ held = "off" /\ interned = "off" /\ mtx = "off"
    /\ exclusive = "off" /\ share_count = "off" /\ os = "off" /\ fails = "off"
    /\ late = "off"

\* ------------------------------------------------- dependency graph
\* Unit graphs are acyclic: a unit depends only on units with a smaller number.
Graphs == {g \in [Units -> SUBSET Units] : \A u \in Units : \A d \in g[u] : d < u}

RECURSIVE inner(_, _, _)
inner(g, todo, results) ==
    IF todo = {} THEN results
    ELSE LET dep == CHOOSE d \in todo : TRUE
             r1 == IF dep \in results THEN results
                   ELSE inner(g, g[dep], results \cup {dep})
         IN inner(g, todo \ {dep}, r1)

\* a traversal that stops at the direct dependencies:
all_dependency_units_directOnly(g, u) == g[u]
all_dependency_units(g, u) == inner(g, g[u], {})

\* The orders in which a HashSet of units can be iterated into a Vec.
Orders(S) == {s \in [1..Cardinality(S) -> S] : \A i, j \in 1..Cardinality(S) : s[i] = s[j] => i = j}

\* ------------------------------------------------------------- helpers
ProcOf(w) == cl[w].proc
FileOf(w) == <<tgt[w].u, tgt[w].k>>
LockOf(w) == <<ProcOf(w), FileOf(w)>>
Waiters(l) == {w \in Workers : pc[w] = "wait" /\ LockOf(w) = l}

\* The logical state of unit u as held by worker w (rows of the module's table).
PairOf(w, u) == <<held[w][<<u, "partial">>], held[w][<<u, "full">>]>>
BuildingExclusive(w, u) == PairOf(w, u) = <<"ex", "ex">>
BuildingNonExclusive(w, u) == PairOf(w, u) = <<"sh", "ex">>
SharedPartial(w, u) == PairOf(w, u) = <<"sh", "un">>
SharedFull(w, u) == PairOf(w, u) = <<"sh", "sh">>
Building(w, u) == BuildingExclusive(w, u) \/ BuildingNonExclusive(w, u)

Init ==
    /\ unit_deps \in Graphs
    /\ pc = [w \in Workers |-> "idle"]
    /\ cl = [w \in Workers |-> NoCl]
    /\ ty = [w \in Workers |-> "none"]
    /\ tgt = [w \in Workers |-> NoTgt]
    /\ idx = [w \in Workers |-> 0]
    /\ guard = [w \in Workers |-> [u \in Units |-> "none"]]
    /\ held = [w \in Workers |-> [f \in Files |-> "un"]]
    /\ interned = [p \in Procs |-> {}]
    /\ mtx = [l \in Locks |-> 0]
    /\ exclusive = [l \in Locks |-> FALSE]
    /\ share_count = [l \in Locks |-> 0]
    /\ os = [l \in Locks |-> "un"]
    /\ fails = 0
    /\ late = [w \in Workers |-> {}]
    /\ ModeOff /\ OrderOff /\ InternOff /\ LayoutOff

\* ------------------------------------------------- CompilationLock::new
\* Workers and processes are interchangeable, and constructing a CompilationLock
\* touches nothing shared: the locks are constructed in the order of the worker
\* numbers, sorted by (process, unit), the processes numbered as they first appear.
Canonical(w, p, u) ==
    IF w = 1 THEN p = 1
    ELSE /\ pc[w - 1] # "idle"
         /\ \/ p = cl[w - 1].proc /\ cl[w - 1].unit <= u
            \/ p = cl[w - 1].proc + 1

New(w, p, u) ==
    /\ pc[w] = "idle"
    /\ Canonical(w, p, u)
    /\ \E o \in Orders(all_dependency_units(unit_deps, u)) :
           cl' = [cl EXCEPT ![w] = [proc |-> p, unit |-> u, order |-> o]]
    /\ pc' = [pc EXCEPT ![w] = "ready"]
    /\ UNCHANGED <<aux_vars, unit_deps, ty, tgt, idx, guard, held, interned, mtx, exclusive,
                   share_count, os, fails, late>>

\* The lock types worth passing: the type is read only when there are dependencies.
LockTypes(w) == IF cl[w].order = << >> THEN {"Partial"} ELSE {"Partial", "Full"}

\* CompilationLock::lock is called: UnitLock::lock_exclusive on the own unit comes first.
CallLock(w, t) ==
    /\ pc[w] = "ready"
    /\ t \in LockTypes(w)
    /\ ty' = [ty EXCEPT ![w] = t]
    /\ tgt' = [tgt EXCEPT ![w] = [u |-> cl[w].unit, k |-> "partial", m |-> "ex"]]
    /\ pc' = [pc EXCEPT ![w] = "intern"]
    /\ UNCHANGED <<aux_vars, unit_deps, cl, idx, guard, held, interned, mtx, exclusive,
                   share_count, os, fails, late>>

\* CompilationLock::lock is called on a CompilationLock whose own UnitLock already
\* has its guard: assert!(self.guard.is_none()) in UnitLock::lock_exclusive fails
\* and the thread panics before anything is touched.
LockAgain(w) ==
    /\ pc[w] \in {"locked", "downgraded"}
    /\ guard[w][cl[w].unit] # "none"
    /\ fails < MaxFail
    /\ fails' = fails + 1
    /\ pc' = [pc EXCEPT ![w] = "panicked"]
    /\ UNCHANGED <<aux_vars, unit_deps, cl, ty, tgt, idx, guard, held, interned, mtx, exclusive,
                   share_count, os, late>>

\* ------------------------------- control flow after an RcFileLock call returned Ok
\* UnitLock::lock_exclusive goes on to full.lock; UnitLock::lock_shared goes on to
\* full only for SharedLockType::Full; then the guard is stored and
\* CompilationLock::lock moves to the next of dependency_units.
\* lock_shared that never goes on to full.lock, whatever the SharedLockType:
UnitDone_ignoresType(w) == tgt[w].k = "full" \/ tgt[w].m = "sh"
\* lock_exclusive that stops after partial.lock:
UnitDone_afterPartial(w) == TRUE
UnitDone(w) == tgt[w].k = "full" \/ (tgt[w].m = "sh" /\ ty[w] = "Partial")
NextIdx(w) == IF tgt[w].m = "ex" THEN 0 ELSE idx[w] + 1
Continue(w) ==
    IF ~UnitDone(w)
    THEN /\ tgt' = [tgt EXCEPT ![w] = [@ EXCEPT !.k = "full"]]
         /\ pc' = [pc EXCEPT ![w] = "intern"]
         /\ UNCHANGED <<guard, idx>>
    ELSE /\ guard' = [guard EXCEPT ![w][tgt[w].u] = IF tgt[w].k = "full" THEN "pf" ELSE "p"]
         /\ idx' = [idx EXCEPT ![w] = NextIdx(w)]
         /\ IF NextIdx(w) < Len(cl[w].order)
            THEN /\ tgt' = [tgt EXCEPT ![w] = [u |-> cl[w].order[NextIdx(w) + 1],
                                               k |-> "partial", m |-> "sh"]]
                 /\ pc' = [pc EXCEPT ![w] = "intern"]
            ELSE /\ tgt' = [tgt EXCEPT ![w] = NoTgt]
                 /\ pc' = [pc EXCEPT ![w] = "locked"]

\* The call to CompilationLock::lock returns Err: `?` drops the local Arc, no unlock.
ReturnErr(w) ==
    /\ pc' = [pc EXCEPT ![w] = "failed"]
    /\ tgt' = [tgt EXCEPT ![w] = NoTgt]
    /\ UNCHANGED <<guard, idx>>

\* ------------------------------------- FileLockInterner::get_or_create_lock
\* The builders of unit u that have returned from rmeta_produced and not released.
NonExclusiveBuilders(w, u) == {x \in Workers \ {w} : BuildingNonExclusive(x, u)}

get_or_create_lock(w) ==
    /\ pc[w] = "intern"
    /\ interned' = [interned EXCEPT ![ProcOf(w)] = @ \cup {FileOf(w)}]
    /\ pc' = [pc EXCEPT ![w] = "enter"]
    /\ late' = [late EXCEPT ![w] =
                  IF tgt[w].m = "sh" /\ tgt[w].k = "partial"
                  THEN @ \cup ({tgt[w].u} \X NonExclusiveBuilders(w, tgt[w].u)) ELSE @]
    /\ UNCHANGED <<aux_vars, unit_deps, cl, ty, tgt, idx, guard, held, mtx, exclusive,
                   share_count, os, fails>>

\* open_file fails: only a path not yet in the map is opened.
get_or_create_lock_err(w) ==
    /\ pc[w] = "intern"
    /\ FileOf(w) \notin interned[ProcOf(w)]
    /\ fails < MaxFail
    /\ fails' = fails + 1
    /\ ReturnErr(w)
    /\ UNCHANGED <<aux_vars, unit_deps, cl, ty, held, interned, mtx, exclusive, share_count, os, late>>

\* ------------------------------------------------------- the OS file locks
\* File::lock blocks while another open file (another process) holds any lock;
\* File::lock_shared blocks while another one holds the lock exclusive.
OsCanLock(l) == \A q \in Procs \ {l[1]} : os[<<q, l[2]>>] = "un"
OsCanLockShared(l) == \A q \in Procs \ {l[1]} : os[<<q, l[2]>>] # "ex"

\* ------------------------------------------------------------ RcFileLock
\* Faulty variants of the definitions below, used to test that the properties
\* depend on them.
\* lock that forgets to wait for an exclusive holder:
LockMustWait_sharersOnly(l) == share_count[l] > 0
\* lock that forgets to wait for the sharers:
LockMustWait_exclusiveOnly(l) == exclusive[l]
\* lock_shared that does not wait for the exclusive holder:
SharedMustWait_never(l) == FALSE
\* unlock that decrements also for the last sharer, leaving the OS lock in place:
UnlockKeepsOs_offByOne(l) == share_count[l] > 0
\* notify_all that wakes nobody:
notify_all_none(l, base) == base

\* The loop conditions of the condvar waits.
LockMustWait(l) == exclusive[l] \/ share_count[l] > 0
SharedMustWait(l) == exclusive[l]
\* lock_shared that takes the first-sharer branch every time:
SharedNeedsOs_always(l) == TRUE
\* lock_shared calls the OS only for the first sharer.
SharedNeedsOs(l) == share_count[l] = 0
\* unlock that calls the OS unlock whenever a sharer leaves:
UnlockKeepsOs_never(l) == FALSE
\* unlock of a shared lock only decrements while other sharers remain.
UnlockKeepsOs(l) == share_count[l] > 1

\* Condvar::notify_all: every thread waiting on this lock's condvar goes back to
\* re-acquire the mutex and test its loop condition.
notify_all(l, base) == [x \in Workers |-> IF x \in Waiters(l) THEN "enter" ELSE base[x]]

\* Condvar::wait may return without a notification.
SpuriousWake(w) ==
    /\ pc[w] = "wait"
    /\ pc' = [pc EXCEPT ![w] = "enter"]
    /\ UNCHANGED <<aux_vars, unit_deps, cl, ty, tgt, idx, guard, held, interned, mtx, exclusive,
                   share_count, os, fails, late>>

\* RcFileLock::lock up to the OS call: take the mutex, wait on the condvar while held.
RcLock_enter(w) ==
    /\ pc[w] = "enter" /\ tgt[w].m = "ex"
    /\ mtx[LockOf(w)] = 0
    /\ IF LockMustWait(LockOf(w))
       THEN /\ pc' = [pc EXCEPT ![w] = "wait"]
            /\ UNCHANGED mtx
       ELSE /\ pc' = [pc EXCEPT ![w] = "os"]
            /\ mtx' = [mtx EXCEPT ![LockOf(w)] = w]
    /\ UNCHANGED <<aux_vars, unit_deps, cl, ty, tgt, idx, guard, held, interned, exclusive,
                   share_count, os, fails, late>>

\* RcFileLock::lock from the OS call on: inner.file.lock()?; inner.exclusive = true.
RcLock_os(w) ==
    /\ pc[w] = "os" /\ tgt[w].m = "ex"
    /\ OsCanLock(LockOf(w))
    /\ os' = [os EXCEPT ![LockOf(w)] = "ex"]
    /\ exclusive' = [exclusive EXCEPT ![LockOf(w)] = TRUE]
    /\ mtx' = [mtx EXCEPT ![LockOf(w)] = 0]
    /\ held' = [held EXCEPT ![w][FileOf(w)] = "ex"]
    /\ Continue(w)
    /\ UNCHANGED <<aux_vars, unit_deps, cl, ty, interned, share_count, fails, late>>

\* inner.file.lock() or inner.file.lock_shared() returns an error: `?` returns it,
\* the mutex guard is dropped, the flags are untouched.
RcLock_os_err(w) ==
    /\ pc[w] = "os"
    /\ fails < MaxFail
    /\ fails' = fails + 1
    /\ mtx' = [mtx EXCEPT ![LockOf(w)] = 0]
    /\ ReturnErr(w)
    /\ UNCHANGED <<aux_vars, unit_deps, cl, ty, held, interned, exclusive, share_count, os, late>>

\* RcFileLock::lock_shared up to the OS call; a further sharer only counts.
RcLockShared_enter(w) ==
    /\ pc[w] = "enter" /\ tgt[w].m = "sh"
    /\ mtx[LockOf(w)] = 0
    /\ IF SharedMustWait(LockOf(w))
       THEN /\ pc' = [pc EXCEPT ![w] = "wait"]
            /\ UNCHANGED <<mtx, share_count, held, tgt, guard, idx>>
       ELSE IF SharedNeedsOs(LockOf(w))
       THEN /\ pc' = [pc EXCEPT ![w] = "os"]
            /\ mtx' = [mtx EXCEPT ![LockOf(w)] = w]
            /\ UNCHANGED <<share_count, held, tgt, guard, idx>>
       ELSE /\ share_count' = [share_count EXCEPT ![LockOf(w)] = @ + 1]
            /\ held' = [held EXCEPT ![w][FileOf(w)] = "sh"]
            /\ Continue(w)
            /\ UNCHANGED mtx
    /\ UNCHANGED <<aux_vars, unit_deps, cl, ty, interned, exclusive, os, fails, late>>

\* RcFileLock::lock_shared, first sharer: inner.file.lock_shared()?; share_count = 1.
RcLockShared_os(w) ==
    /\ pc[w] = "os" /\ tgt[w].m = "sh"
    /\ OsCanLockShared(LockOf(w))
    /\ os' = [os EXCEPT ![LockOf(w)] = "sh"]
    /\ share_count' = [share_count EXCEPT ![LockOf(w)] = 1]
    /\ mtx' = [mtx EXCEPT ![LockOf(w)] = 0]
    /\ held' = [held EXCEPT ![w][FileOf(w)] = "sh"]
    /\ Continue(w)
    /\ UNCHANGED <<aux_vars, unit_deps, cl, ty, interned, exclusive, fails, late>>

\* RcFileLock::unlock on lock l by worker w, whose thread goes on at `base`.
RcUnlock(l, base) ==
    /\ mtx[l] = 0
    /\ IF exclusive[l]
       THEN /\ os' = [os EXCEPT ![l] = "un"]
            /\ exclusive' = [exclusive EXCEPT ![l] = FALSE]
            /\ pc' = notify_all(l, base)
            /\ UNCHANGED share_count
       ELSE IF UnlockKeepsOs(l)
       THEN /\ share_count' = [share_count EXCEPT ![l] = @ - 1]
            /\ pc' = base
            /\ UNCHANGED <<os, exclusive>>
       ELSE /\ os' = [os EXCEPT ![l] = "un"]
            /\ share_count' = [share_count EXCEPT ![l] = 0]
            /\ pc' = notify_all(l, base)
            /\ UNCHANGED exclusive

\* downgrade that leaves the exclusive flag set:
RcDowngrade_keepsExclusive(l) ==
    /\ os' = [os EXCEPT ![l] = "sh"]
    /\ share_count' = [share_count EXCEPT ![l] = 1]
    /\ UNCHANGED exclusive

\* RcFileLock::downgrade on lock l from the OS call on: the OS lock is converted,
\* the flags swapped; the condvar is not notified.
RcDowngrade(l) ==
    /\ os' = [os EXCEPT ![l] = "sh"]
    /\ exclusive' = [exclusive EXCEPT ![l] = FALSE]
    /\ share_count' = [share_count EXCEPT ![l] = 1]

\* downgrade written as unlock followed by lock_shared: the exclusive lock is
\* given up and the mutex released before the shared lock is taken:
RcDowngrade_enter_unlocksFirst(l, w) ==
    /\ os' = [os EXCEPT ![l] = "un"]
    /\ exclusive' = [exclusive EXCEPT ![l] = FALSE]
    /\ UNCHANGED mtx
\* RcFileLock::downgrade up to the OS call: the mutex is taken and kept.
RcDowngrade_enter(l, w) ==
    /\ mtx' = [mtx EXCEPT ![l] = w]
    /\ UNCHANGED <<os, exclusive>>

\* downgrade without its assertions:
DowngradeAsserts_none(l) == TRUE
\* assert!(inner.exclusive); assert!(inner.share_count == 0);
DowngradeAsserts(l) == exclusive[l] /\ share_count[l] = 0

\* ------------------------------------------- CompilationLock::rmeta_produced
OwnPartial(w) == <<ProcOf(w), <<cl[w].unit, "partial">>>>

\* rmeta_produced that also releases the unit's full.lock:
rmeta_produced_os_dropsFull(w) ==
    /\ pc[w] = "dg"
    /\ LET l == OwnPartial(w)
           f == <<ProcOf(w), <<cl[w].unit, "full">>>>
       IN /\ os' = [os EXCEPT ![l] = "sh", ![f] = "un"]
          /\ exclusive' = [exclusive EXCEPT ![l] = FALSE, ![f] = FALSE]
          /\ share_count' = [share_count EXCEPT ![l] = 1]
          /\ mtx' = [mtx EXCEPT ![l] = 0]
    /\ held' = [held EXCEPT ![w][<<cl[w].unit, "partial">>] = "sh",
                            ![w][<<cl[w].unit, "full">>] = "un"]
    /\ pc' = [pc EXCEPT ![w] = "downgraded"]
    /\ UNCHANGED <<aux_vars, unit_deps, cl, ty, tgt, idx, guard, interned, fails, late>>

\* rmeta_produced is called and UnitLock::downgrade finds its guard:
\* RcFileLock::downgrade takes the mutex and its assertions hold.
rmeta_produced(w) ==
    /\ pc[w] \in {"locked", "downgraded"}
    /\ guard[w][cl[w].unit] # "none"
    /\ mtx[OwnPartial(w)] = 0
    /\ DowngradeAsserts(OwnPartial(w))
    /\ RcDowngrade_enter(OwnPartial(w), w)
    /\ pc' = [pc EXCEPT ![w] = "dg"]
    /\ UNCHANGED <<aux_vars, unit_deps, cl, ty, tgt, idx, guard, held, interned, share_count,
                   fails, late>>

\* inner.file.lock_shared() returns Ok: the flags are swapped and the call returns Ok.
rmeta_produced_os(w) ==
    /\ pc[w] = "dg"
    /\ RcDowngrade(OwnPartial(w))
    /\ mtx' = [mtx EXCEPT ![OwnPartial(w)] = 0]
    /\ held' = [held EXCEPT ![w][<<cl[w].unit, "partial">>] = "sh"]
    /\ pc' = [pc EXCEPT ![w] = "downgraded"]
    /\ UNCHANGED <<aux_vars, unit_deps, cl, ty, tgt, idx, guard, interned, fails, late>>

\* inner.file.lock_shared() fails inside downgrade: `?` returns the error, the
\* mutex guard is dropped, nothing else changed.
rmeta_produced_err(w) ==
    /\ pc[w] = "dg"
    /\ fails < MaxFail
    /\ fails' = fails + 1
    /\ mtx' = [mtx EXCEPT ![OwnPartial(w)] = 0]
    /\ pc' = [pc EXCEPT ![w] = "locked"]
    /\ UNCHANGED <<aux_vars, unit_deps, cl, ty, tgt, idx, guard, held, interned, exclusive,
                   share_count, os, late>>

\* rmeta_produced on a CompilationLock that was never locked: UnitLock::downgrade
\* finds guard None and returns Err("guard was None while calling downgrade");
\* the caller gives the compilation up.
rmeta_produced_unlocked(w) ==
    /\ pc[w] = "ready"
    /\ guard[w][cl[w].unit] = "none"
    /\ fails < MaxFail
    /\ fails' = fails + 1
    /\ pc' = [pc EXCEPT ![w] = "failed"]
    /\ UNCHANGED <<aux_vars, unit_deps, cl, ty, tgt, idx, guard, held, interned, mtx, exclusive,
                   share_count, os, late>>

\* rmeta_produced on a unit whose partial.lock is not held exclusive (it was
\* downgraded already): an assertion of RcFileLock::downgrade fails while the
\* mutex guard is alive, so the thread panics and the mutex is poisoned.
rmeta_produced_again(w) ==
    /\ pc[w] \in {"locked", "downgraded"}
    /\ guard[w][cl[w].unit] # "none"
    /\ mtx[OwnPartial(w)] = 0
    /\ ~DowngradeAsserts(OwnPartial(w))
    /\ fails < MaxFail
    /\ fails' = fails + 1
    /\ mtx' = [mtx EXCEPT ![OwnPartial(w)] = -1]
    /\ pc' = [pc EXCEPT ![w] = "panicked"]
    /\ UNCHANGED <<aux_vars, unit_deps, cl, ty, tgt, idx, guard, held, interned, exclusive,
                   share_count, os, late>>

\* RcFileLock::lock or lock_shared finds the mutex poisoned, on entry or when its
\* condvar wait returns: Err("lock was poisoned").
RcLock_poisoned(w) ==
    /\ pc[w] = "enter"
    /\ mtx[LockOf(w)] = -1
    /\ ReturnErr(w)
    /\ UNCHANGED <<aux_vars, unit_deps, cl, ty, held, interned, mtx, exclusive, share_count, os,
                   fails, late>>

\* ------------------------------------------------- drop(CompilationLock)
\* Fields are dropped in declaration order: unit, then dependency_units in Vec
\* order.  UnitLockGuard::drop unlocks partial, then full if it is Some.
DropOrder(w) == <<cl[w].unit>> \o cl[w].order
Pending(w) == {i \in 1..Len(DropOrder(w)) : guard[w][DropOrder(w)[i]] # "none"}
NextDrop(w) == DropOrder(w)[CHOOSE i \in Pending(w) : \A j \in Pending(w) : i <= j]
\* a guard drop that forgets full:
AfterUnlock_skipFull(g) == "none"
AfterUnlock(g) == IF g = "pf" THEN "f" ELSE "none"
\* a guard drop that unlocks partial twice instead of partial and full:
DropKind_alwaysPartial(g) == "partial"
DropKind(g) == IF g = "f" THEN "full" ELSE "partial"
\* The RcFileLock that the next step of dropping w's CompilationLock unlocks.
DropLock(w) == <<ProcOf(w), <<NextDrop(w), DropKind(guard[w][NextDrop(w)])>>>>
\* Where a thread can be when its CompilationLock is dropped.
Dropping == {"locked", "downgraded", "failed", "panicked", "drop"}

\* One unlock of the drop returns Ok (or nothing is left to drop).  A thread that
\* panicked drops its CompilationLock while it unwinds.
DropStep(w) ==
    /\ pc[w] \in Dropping
    /\ IF Pending(w) = {}
       THEN /\ pc' = [pc EXCEPT ![w] = "done"]
            /\ UNCHANGED <<guard, held, os, exclusive, share_count>>
       ELSE LET u == NextDrop(w)
                f == <<u, DropKind(guard[w][u])>>
                g == AfterUnlock(guard[w][u])
                last == g = "none" /\ Pending(w) = {CHOOSE i \in Pending(w) : TRUE}
                then == IF last THEN "done" ELSE IF pc[w] = "panicked" THEN "panicked" ELSE "drop"
            IN /\ RcUnlock(<<ProcOf(w), f>>, [pc EXCEPT ![w] = then])
               /\ guard' = [guard EXCEPT ![w][u] = g]
               /\ held' = [held EXCEPT ![w][f] = "un"]
    /\ UNCHANGED <<aux_vars, unit_deps, cl, ty, tgt, idx, interned, mtx, fails, late>>

\* unlock() returned Err inside UnitLockGuard::drop and unwrap() panics: the guard
\* is gone without the rest of its unlocks.  A thread that was already unwinding
\* from a panic makes the process abort.
UnwrapPanic(w) ==
    /\ guard' = [guard EXCEPT ![w][NextDrop(w)] = "none"]
    /\ pc' = [pc EXCEPT ![w] = IF pc[w] = "panicked" THEN "aborting" ELSE "panicked"]

\* RcFileLock::unlock in a drop finds the mutex poisoned.
DropPoisoned(w) ==
    /\ pc[w] \in Dropping /\ Pending(w) # {}
    /\ mtx[DropLock(w)] = -1
    /\ UnwrapPanic(w)
    /\ UNCHANGED <<aux_vars, unit_deps, cl, ty, tgt, idx, held, interned, mtx, exclusive,
                   share_count, os, fails, late>>

\* an unlock that clears the flags before it calls inner.file.unlock()?:
DropUnlockErr_flagsFirst(w) ==
    /\ pc[w] \in Dropping /\ Pending(w) # {}
    /\ mtx[DropLock(w)] = 0
    /\ exclusive[DropLock(w)] \/ ~UnlockKeepsOs(DropLock(w))
    /\ fails < MaxFail
    /\ fails' = fails + 1
    /\ exclusive' = [exclusive EXCEPT ![DropLock(w)] = FALSE]
    /\ share_count' = [share_count EXCEPT ![DropLock(w)] = 0]
    /\ UnwrapPanic(w)
    /\ UNCHANGED <<aux_vars, unit_deps, cl, ty, tgt, idx, held, interned, mtx, os, late>>

\* inner.file.unlock() fails in a drop: `?` returns the error before the flags are
\* touched and the condvar notified.
DropUnlockErr(w) ==
    /\ pc[w] \in Dropping /\ Pending(w) # {}
    /\ mtx[DropLock(w)] = 0
    /\ exclusive[DropLock(w)] \/ ~UnlockKeepsOs(DropLock(w))
    /\ fails < MaxFail
    /\ fails' = fails + 1
    /\ UnwrapPanic(w)
    /\ UNCHANGED <<aux_vars, unit_deps, cl, ty, tgt, idx, held, interned, mtx, exclusive,
                   share_count, os, late>>

\* The process aborts: its threads and its memory are gone and the kernel closes
\* its files, which releases their locks.
InProc(x, p) == pc[x] # "idle" /\ ProcOf(x) = p
Abort(p) ==
    /\ \E w \in Workers : InProc(w, p) /\ pc[w] = "aborting"
    /\ pc' = [x \in Workers |-> IF InProc(x, p) THEN "aborted" ELSE pc[x]]
    /\ ty' = [x \in Workers |-> IF InProc(x, p) THEN "none" ELSE ty[x]]
    /\ tgt' = [x \in Workers |-> IF InProc(x, p) THEN NoTgt ELSE tgt[x]]
    /\ idx' = [x \in Workers |-> IF InProc(x, p) THEN 0 ELSE idx[x]]
    /\ guard' = [x \in Workers |-> IF InProc(x, p) THEN [u \in Units |-> "none"] ELSE guard[x]]
    /\ held' = [x \in Workers |-> IF InProc(x, p) THEN [f \in Files |-> "un"] ELSE held[x]]
    /\ late' = [x \in Workers |-> IF InProc(x, p) THEN {} ELSE late[x]]
    /\ interned' = [interned EXCEPT ![p] = {}]
    /\ mtx' = [l \in Locks |-> IF l[1] = p THEN 0 ELSE mtx[l]]
    /\ exclusive' = [l \in Locks |-> IF l[1] = p THEN FALSE ELSE exclusive[l]]
    /\ share_count' = [l \in Locks |-> IF l[1] = p THEN 0 ELSE share_count[l]]
    /\ os' = [l \in Locks |-> IF l[1] = p THEN "un" ELSE os[l]]
    /\ UNCHANGED <<aux_vars, unit_deps, cl, fails>>

\* ------------------------------------------------------------------ Next
NextOk ==
    \/ \E w \in Workers, p \in Procs, u \in Units : New(w, p, u)
    \/ \E w \in Workers, t \in {"Partial", "Full"} : CallLock(w, t)
    \/ \E w \in Workers : get_or_create_lock(w)
    \/ \E w \in Workers : RcLock_enter(w)
    \/ \E w \in Workers : RcLock_os(w)
    \/ \E w \in Workers : RcLockShared_enter(w)
    \/ \E w \in Workers : RcLockShared_os(w)
    \/ \E w \in Workers : rmeta_produced(w)
    \/ \E w \in Workers : rmeta_produced_os(w)
    \/ \E w \in Workers : DropStep(w)

NextErr ==
    \/ \E w \in Workers : get_or_create_lock_err(w)
    \/ \E w \in Workers : RcLock_os_err(w)
    \/ \E w \in Workers : rmeta_produced_err(w)
    \/ \E w \in Workers : DropUnlockErr(w)

NextWake == \E w \in Workers : SpuriousWake(w)

NextPanic ==
    \/ \E w \in Workers : LockAgain(w)
    \/ \E w \in Workers : rmeta_produced_unlocked(w)
    \/ \E w \in Workers : rmeta_produced_again(w)
    \/ \E w \in Workers : RcLock_poisoned(w)
    \/ \E w \in Workers : DropPoisoned(w)
    \/ \E p \in Procs : Abort(p)

Next == NextOk \/ NextErr \/ NextWake \/ NextPanic

Spec == Init /\ [][Next]_vars

\* ---------------------------------------------- scheduling without OS errors
NextNoErr == NextOk \/ NextWake

\* The steps a thread takes on its own once CompilationLock::lock is running or a
\* drop has begun: the scheduler runs every thread that is not blocked.
Acquire(w) ==
    \/ get_or_create_lock(w)
    \/ RcLock_enter(w)
    \/ RcLock_os(w)
    \/ RcLockShared_enter(w)
    \/ RcLockShared_os(w)
    \/ rmeta_produced_os(w)
    \/ (pc[w] = "drop" /\ DropStep(w))

\* Threads are scheduled fairly, every worker that was constructed calls lock and
\* every compilation ends; a condvar need not wake up spuriously.
FairSpec ==
    /\ Init /\ [][NextNoErr]_vars
    /\ \A w \in Workers : WF_vars(Acquire(w))
    /\ \A w \in Workers : WF_vars(\E t \in {"Partial", "Full"} : CallLock(w, t))
    /\ \A w \in Workers : WF_vars(DropStep(w))

\* ====================================================================
\* LockingStrategy::determine_locking_strategy
\* ====================================================================
LockingModes == {"Disabled", "Fine", "Coarse"}

\* What the call reads: whether target_dir and build_dir are the same path, the
\* result of is_on_nfs_mount for each (one result when they are the same path),
\* whether a BuildContext is passed, the -Z fine-grain-locking flag and the number
\* of keys of bcx.unit_graph.
Workspaces ==
    {w \in [same_dir : BOOLEAN, nfs_artifact : BOOLEAN, nfs_build : BOOLEAN, bcx : BOOLEAN,
            fine_grain_locking : BOOLEAN, total_units : 0..MaxTotalUnits] :
        /\ w.same_dir => (w.nfs_build = w.nfs_artifact)
        /\ ~w.bcx => w.total_units = 0}
\* Whether getrlimit, setrlimit and the shell's warning succeed.
SysResults == [get : BOOLEAN, set : BOOLEAN, warn : BOOLEAN]
ResourceLimits ==
    {l \in [soft_limit : 0..MaxLimit, hard_limit : 0..MaxLimit] : l.soft_limit <= l.hard_limit}

NoStrategy == [res |-> "none", artifact_dir |-> "none", build_dir |-> "none"]
NoMode == [res |-> "none", mode |-> "none"]
Mode(m) == [res |-> "Ok", mode |-> m, set |-> << >>]
\* display_fd_warning()?; return Ok(LockingMode::Coarse)
WarnCoarse(s, set) ==
    IF s.warn THEN [res |-> "Ok", mode |-> "Coarse", set |-> set]
    ELSE [res |-> "Err", mode |-> "none", set |-> set]

\* determine_build_dir_locking_mode that does not read the feature flag:
determine_build_dir_locking_mode_noFlag(w, s, limit) ==
    LET safe_threshold == w.total_units * 10
        raised == [soft_limit |-> safe_threshold, hard_limit |-> limit.hard_limit]
    IN IF ~s.get THEN Mode("Coarse")
       ELSE IF limit.soft_limit >= safe_threshold THEN Mode("Fine")
       ELSE IF limit.hard_limit < safe_threshold THEN WarnCoarse(s, << >>)
       ELSE IF ~s.set THEN WarnCoarse(s, <<raised>>)
       ELSE [res |-> "Ok", mode |-> "Fine", set |-> <<raised>>]

\* determine_build_dir_locking_mode that raises the hard limit with the soft limit:
determine_build_dir_locking_mode_raisesHard(w, s, limit) ==
    LET safe_threshold == w.total_units * 10
        raised == [soft_limit |-> safe_threshold, hard_limit |-> safe_threshold]
    IN IF w.fine_grain_locking THEN Mode("Fine")
       ELSE IF ~s.get THEN Mode("Coarse")
       ELSE IF limit.soft_limit >= safe_threshold THEN Mode("Fine")
       ELSE IF limit.hard_limit < safe_threshold THEN WarnCoarse(s, << >>)
       ELSE IF ~s.set THEN WarnCoarse(s, <<raised>>)
       ELSE [res |-> "Ok", mode |-> "Fine", set |-> <<raised>>]

determine_build_dir_locking_mode(w, s, limit) ==
    LET safe_threshold == w.total_units * 10
        raised == [soft_limit |-> safe_threshold, hard_limit |-> limit.hard_limit]
    IN IF w.fine_grain_locking THEN Mode("Fine")
       ELSE IF ~s.get THEN Mode("Coarse")
       ELSE IF limit.soft_limit >= safe_threshold THEN Mode("Fine")
       ELSE IF limit.hard_limit < safe_threshold THEN WarnCoarse(s, << >>)
       ELSE IF ~s.set THEN WarnCoarse(s, <<raised>>)
       ELSE [res |-> "Ok", mode |-> "Fine", set |-> <<raised>>]


determine_locking_mode(w, s, limit) ==
    LET safe_threshold == w.total_units * 10
        raised == [soft_limit |-> safe_threshold, hard_limit |-> limit.hard_limit]
    IN IF ~s.get THEN Mode("Coarse")
       ELSE IF limit.soft_limit >= safe_threshold THEN Mode("Fine")
       ELSE IF limit.hard_limit < safe_threshold THEN WarnCoarse(s, << >>)
       ELSE IF ~s.set THEN WarnCoarse(s, <<raised>>)
       ELSE [res |-> "Ok", mode |-> "Fine", set |-> <<raised>>]

artifact_dir_locking_mode(w) == IF w.nfs_artifact THEN "Disabled" ELSE "Coarse"

\* build_dir_locking_mode that asks for the mode before it looks at the filesystem:
build_dir_locking_mode_nfsLast(w, s, limit) ==
    IF w.same_dir THEN Mode("None")
    ELSE IF w.bcx /\ determine_build_dir_locking_mode(w, s, limit).mode = "Fine"
    THEN determine_build_dir_locking_mode(w, s, limit)
    ELSE IF w.nfs_build THEN Mode("Disabled")
    ELSE IF w.bcx THEN determine_build_dir_locking_mode(w, s, limit)
    ELSE Mode("Coarse")

\* build_dir_locking_mode that never compares target_dir with build_dir:
build_dir_locking_mode_alwaysSome(w, s, limit) ==
    IF w.nfs_build THEN Mode("Disabled")
    ELSE IF w.bcx THEN determine_build_dir_locking_mode(w, s, limit)
    ELSE Mode("Coarse")

build_dir_locking_mode(w, s, limit) ==
    IF w.same_dir THEN Mode("None")
    ELSE IF w.nfs_build THEN Mode("Disabled")
    ELSE IF w.bcx THEN determine_build_dir_locking_mode(w, s, limit)
    ELSE Mode("Coarse")

\* LockingStrategy::artifact_dir, build_dir, is_unified_output_dir
artifact_dir(st) == st.artifact_dir
build_dir(st) == IF st.build_dir = "None" THEN st.artifact_dir ELSE st.build_dir
is_unified_output_dir(st) == st.build_dir = "None"

InitMode ==
    /\ ws \in Workspaces
    /\ sys \in SysResults
    /\ nofile \in ResourceLimits
    /\ strategy = NoStrategy
    /\ set_calls = << >>
    /\ locking_mode = NoMode
    /\ LockOff /\ OrderOff /\ InternOff /\ LayoutOff

determine_locking_strategy ==
    /\ strategy.res = "none"
    /\ LET b == build_dir_locking_mode(ws, sys, nofile)
       IN /\ strategy' = IF b.res = "Err"
                         THEN [res |-> "Err", artifact_dir |-> "none", build_dir |-> "none"]
                         ELSE [res |-> "Ok", artifact_dir |-> artifact_dir_locking_mode(ws),
                               build_dir |-> b.mode]
          /\ set_calls' = set_calls \o b.set
          /\ nofile' = IF b.set # << >> /\ sys.set THEN b.set[1] ELSE nofile
    /\ UNCHANGED <<lock_vars, layout_vars, order_vars, intern_vars, ws, sys, locking_mode>>

\* The free function determine_locking_mode is called with the build context.
call_determine_locking_mode ==
    /\ locking_mode.res = "none" /\ ws.bcx
    /\ LET r == determine_locking_mode(ws, sys, nofile)
       IN /\ locking_mode' = [res |-> r.res, mode |-> r.mode]
          /\ set_calls' = set_calls \o r.set
          /\ nofile' = IF r.set # << >> /\ sys.set THEN r.set[1] ELSE nofile
    /\ UNCHANGED <<lock_vars, layout_vars, order_vars, intern_vars, ws, sys, strategy>>

NextMode == determine_locking_strategy \/ call_determine_locking_mode

ModeSpec == InitMode /\ [][NextMode]_vars

\* ====================================================================
\* CompilationLock::new and the order of CompilationLock::lock, one thread,
\* no contention: every lock call returns Ok at once
\* ====================================================================
OrderUnits == 1..NumOrderUnits
OrderGraphs ==
    {g \in [OrderUnits -> SUBSET OrderUnits] : \A u \in OrderUnits : \A d \in g[u] : d < u}
NoClock == [unit |-> 0, dependency_units |-> << >>]

InitOrder ==
    /\ unit_graph \in OrderGraphs
    /\ clock = NoClock
    /\ locked = << >>
    /\ LockOff /\ ModeOff /\ InternOff /\ LayoutOff

\* CompilationLock::new: the HashSet returned by all_dependency_units is iterated
\* into dependency_units, in the set's iteration order.
OrderNew(u) ==
    /\ clock = NoClock
    /\ \E o \in Orders(all_dependency_units(unit_graph, u)) :
           clock' = [unit |-> u, dependency_units |-> o]
    /\ UNCHANGED <<lock_vars, layout_vars, mode_vars, intern_vars, unit_graph, locked>>

\* CompilationLock::lock: self.unit.lock_exclusive()?
OrderLockExclusive ==
    /\ clock # NoClock /\ locked = << >>
    /\ locked' = <<clock.unit>>
    /\ UNCHANGED <<lock_vars, layout_vars, mode_vars, intern_vars, unit_graph, clock>>

\* CompilationLock::lock: the next d.lock_shared(ty)? of the loop
OrderLockShared ==
    /\ Len(locked) >= 1 /\ Len(locked) <= Len(clock.dependency_units)
    /\ locked' = Append(locked, clock.dependency_units[Len(locked)])
    /\ UNCHANGED <<lock_vars, layout_vars, mode_vars, intern_vars, unit_graph, clock>>

NextOrder ==
    \/ \E u \in OrderUnits : OrderNew(u)
    \/ OrderLockExclusive
    \/ OrderLockShared

OrderSpec == InitOrder /\ [][NextOrder]_vars

\* ====================================================================
\* FileLockInterner::get_or_create_lock, statement by statement, called by
\* several threads of one process
\* ====================================================================
Threads == 1..NumThreads
Paths == 1..NumPaths

InitIntern ==
    /\ ipc = [t \in Threads |-> "idle"]
    /\ ipath = [t \in Threads |-> 0]
    /\ icalls = [t \in Threads |-> 0]
    /\ imtx = 0
    /\ locks = [p \in Paths |-> 0]
    /\ objects = 0
    /\ opened = [p \in Paths |-> 0]
    /\ returned = {}
    /\ LockOff /\ ModeOff /\ OrderOff /\ LayoutOff

\* A thread calls get_or_create_lock(path).
InternCall(t, p) ==
    /\ ipc[t] = "idle" /\ icalls[t] < MaxCalls
    /\ ipc' = [ipc EXCEPT ![t] = "lock"]
    /\ ipath' = [ipath EXCEPT ![t] = p]
    /\ icalls' = [icalls EXCEPT ![t] = @ + 1]
    /\ UNCHANGED <<lock_vars, layout_vars, mode_vars, order_vars, imtx, locks, objects, opened, returned>>

\* a mutex that excludes nobody:
InternMutexFree_always == TRUE
InternMutexFree == imtx = 0

\* let mut locks = GLOBAL.locks.lock()
InternLock(t) ==
    /\ ipc[t] = "lock" /\ InternMutexFree
    /\ imtx' = t
    /\ ipc' = [ipc EXCEPT ![t] = "get"]
    /\ UNCHANGED <<lock_vars, layout_vars, mode_vars, order_vars, ipath, icalls, locks, objects, opened,
                   returned>>

\* if let Some(lock) = locks.get(path) { return Ok(Arc::clone(lock)); }
InternGet(t) ==
    /\ ipc[t] = "get"
    /\ IF locks[ipath[t]] # 0
       THEN /\ returned' = returned \cup {<<t, ipath[t], locks[ipath[t]]>>}
            /\ imtx' = 0
            /\ ipc' = [ipc EXCEPT ![t] = "idle"]
       ELSE /\ ipc' = [ipc EXCEPT ![t] = "open"]
            /\ UNCHANGED <<returned, imtx>>
    /\ UNCHANGED <<lock_vars, layout_vars, mode_vars, order_vars, ipath, icalls, locks, objects, opened>>

\* let file = open_file(&path)?  -- Ok
InternOpen(t) ==
    /\ ipc[t] = "open"
    /\ opened' = [opened EXCEPT ![ipath[t]] = @ + 1]
    /\ ipc' = [ipc EXCEPT ![t] = "insert"]
    /\ UNCHANGED <<lock_vars, layout_vars, mode_vars, order_vars, ipath, icalls, imtx, locks, objects,
                   returned>>

\* let file = open_file(&path)?  -- Err: returned to the caller, the mutex released
InternOpenErr(t) ==
    /\ ipc[t] = "open"
    /\ imtx' = 0
    /\ ipc' = [ipc EXCEPT ![t] = "idle"]
    /\ UNCHANGED <<lock_vars, layout_vars, mode_vars, order_vars, ipath, icalls, locks, objects, opened,
                   returned>>

\* let lock = Arc::new(RcFileLock {..}); locks.insert(path, Arc::clone(&lock)); Ok(lock)
InternInsert(t) ==
    /\ ipc[t] = "insert"
    /\ objects' = objects + 1
    /\ locks' = [locks EXCEPT ![ipath[t]] = objects + 1]
    /\ returned' = returned \cup {<<t, ipath[t], objects + 1>>}
    /\ imtx' = 0
    /\ ipc' = [ipc EXCEPT ![t] = "idle"]
    /\ UNCHANGED <<lock_vars, layout_vars, mode_vars, order_vars, ipath, icalls, opened>>

NextIntern ==
    \/ \E t \in Threads, p \in Paths : InternCall(t, p)
    \/ \E t \in Threads : InternLock(t)
    \/ \E t \in Threads : InternGet(t)
    \/ \E t \in Threads : InternOpen(t)
    \/ \E t \in Threads : InternOpenErr(t)
    \/ \E t \in Threads : InternInsert(t)

InternSpec == InitIntern /\ [][NextIntern]_vars

\* ====================================================================
\* Properties
\* ====================================================================
Builders(u) == {w \in Workers : Building(w, u)}
Quiet(l) == mtx[l] = 0

\* C1: writer/writer exclusion.  At most one CompilationLock holds a unit in a
\* building state (its full.lock held exclusive, partial exclusive or shared).
C1_WriterWriterExclusion == \A u \in Units : Cardinality(Builders(u)) <= 1

\* C1 witness: a unit is being built while another worker of the same process and
\* a worker of another process are inside RcFileLock::lock for the same unit.
C1_Witness ==
    \E u \in Units, w, x, y \in Workers :
        /\ Building(w, u)
        /\ x # w /\ y # w /\ x # y
        /\ cl[x].unit = u /\ cl[y].unit = u
        /\ ProcOf(x) = ProcOf(w) /\ ProcOf(y) # ProcOf(w)
        /\ pc[x] = "wait" /\ pc[y] = "os"

\* C2: reader/writer exclusion on partial.lock.  No worker holds a unit shared
\* (Shared Partial or Shared Full) while another is in Building Exclusive on it.
C2_ReaderWriterExclusion ==
    \A u \in Units, w, x \in Workers :
        (w # x /\ BuildingExclusive(w, u)) => ~(SharedPartial(x, u) \/ SharedFull(x, u))

\* C2 witness: a dependent waits for partial.lock shared while the builder is in
\* Building Exclusive.
C2_Witness ==
    \E u \in Units, w, x \in Workers :
        /\ w # x /\ BuildingExclusive(w, u)
        /\ tgt[x] = [u |-> u, k |-> "partial", m |-> "sh"]
        /\ pc[x] \in {"wait", "os"}

\* C3: a Shared Full lock on a unit is never held while a builder of the unit is
\* in Building Exclusive or Building Non-Exclusive.
C3_NoSharedFullWhileBuilding ==
    \A u \in Units, w, x \in Workers : (w # x /\ Building(w, u)) => ~SharedFull(x, u)

\* C3 witness: the builder has downgraded (rmeta produced) and a Full dependent
\* holds partial.lock shared and is blocked on full.lock.
C3_Witness ==
    \E u \in Units, w, x \in Workers :
        /\ w # x /\ BuildingNonExclusive(w, u)
        /\ ty[x] = "Full"
        /\ held[x][<<u, "partial">>] = "sh"
        /\ tgt[x] = [u |-> u, k |-> "full", m |-> "sh"]
        /\ pc[x] \in {"wait", "os"}

\* C8: an RcFileLock is never exclusive and shared at once.
C8_ExclusiveXorShared == \A l \in Locks : ~(exclusive[l] /\ share_count[l] > 0)

\* C8 witness: all three legal flag combinations occur together, on a lock that
\* has been downgraded and shared by a second holder.
C8_Witness ==
    \E l, m, n \in Locks :
        /\ exclusive[l] /\ share_count[l] = 0
        /\ ~exclusive[m] /\ share_count[m] > 1
        /\ ~exclusive[n] /\ share_count[n] = 0
        /\ \E w \in Workers : pc[w] = "downgraded" /\ OwnPartial(w) = m

\* C9: with the mutex free, the flags mirror the OS lock of the process's file.
C9_FlagsMirrorOs ==
    \A l \in Locks : Quiet(l) =>
        /\ (os[l] = "sh") <=> (share_count[l] > 0)
        /\ (os[l] = "ex") <=> exclusive[l]
        /\ (os[l] = "un") <=> (~exclusive[l] /\ share_count[l] = 0)

\* C9 witness: a lock shared by two holders of one process after a downgrade,
\* another lock held exclusive, and a thread of another process blocked in the OS
\* call on the same file with its mutex held.
C9_Witness ==
    \E l, m, n \in Locks :
        /\ Quiet(l) /\ os[l] = "sh" /\ share_count[l] = 2
        /\ m[2] = l[2] /\ m[1] # l[1] /\ ~Quiet(m) /\ os[m] = "un"
        /\ Quiet(n) /\ os[n] = "ex"
        /\ \E w \in Workers : pc[w] = "downgraded" /\ OwnPartial(w) = l

\* C6: deadlock freedom.  Without OS errors no reachable state is a deadlock (a
\* worker that is not done can take a step other than a spurious wake-up unless
\* all workers are done or not started), and under fair scheduling every worker
\* that was constructed acquires its locks and completes.
Finished == \A w \in Workers : pc[w] \in {"idle", "done"}
C6_NoDeadlockState == Finished \/ ENABLED NextOk
C7_RollbackOnError ==
    \A w \in Workers : pc[w] = "failed" => \A f \in Files : held[w][f] = "un"

\* C10: at every quiescent point of a UnitLock the pair (mode on partial.lock,
\* mode on full.lock) it holds is a row of the state table.
StateTable == {<<"un", "un">>, <<"ex", "ex">>, <<"sh", "ex">>, <<"sh", "un">>, <<"sh", "sh">>}
InProgress(w, u) ==
    \/ pc[w] \in {"intern", "enter", "wait", "os"} /\ tgt[w].u = u
    \/ guard[w][u] = "f"
C10_StateTable ==
    \A w \in Workers, u \in Units : ~InProgress(w, u) => PairOf(w, u) \in StateTable

\* C4: pipelining.  A lock_shared(Partial) request on a unit, issued after the
\* unit's builder w returned from rmeta_produced, is granted without waiting for
\* the builder to release: while the builder still holds the unit, the thread
\* making the request is never blocked (its next step can be taken).
Requesting(x, u) ==
    /\ tgt[x] = [u |-> u, k |-> "partial", m |-> "sh"]
    /\ pc[x] \in {"enter", "wait", "os"}
C4_PipeliningGranted ==
    \A w, x \in Workers, u \in Units :
        (<<u, w>> \in late[x] /\ Requesting(x, u) /\ BuildingNonExclusive(w, u))
            => ENABLED Acquire(x)

\* C5: downgrade wakes waiting readers.  Once the builder w of a unit has returned
\* from rmeta_produced, a thread of the same process that was blocked requesting
\* the unit's partial.lock shared is blocked no longer: it goes on to acquire the
\* lock without an unlock by the builder.
C5_DowngradeWakesReaders ==
    \A w, x \in Workers, u \in Units :
        (w # x /\ ProcOf(w) = ProcOf(x) /\ BuildingNonExclusive(w, u) /\ Requesting(x, u))
            => ENABLED Acquire(x)

\* C11: postcondition of CompilationLock::lock.  When the call has returned Ok the
\* unit itself is in Building Exclusive and every unit of its transitive
\* dependency set is held Shared Partial, or Shared Full when the type is Full.
C11_LockPostcondition ==
    \A w \in Workers : pc[w] = "locked" =>
        /\ BuildingExclusive(w, cl[w].unit)
        /\ \A d \in all_dependency_units(unit_deps, cl[w].unit) :
               IF ty[w] = "Full" THEN SharedFull(w, d) ELSE SharedPartial(w, d)

\* C11 witness: a lock call with type Full on a unit that has a dependency has
\* returned Ok while a worker of another process waits for the same unit.
C11_Witness ==
    \E w, x \in Workers :
        /\ pc[w] = "locked" /\ ty[w] = "Full" /\ cl[w].order # << >>
        /\ ProcOf(x) # ProcOf(w) /\ cl[x].unit = cl[w].unit /\ pc[x] = "os"

\* C12: own unit first.  While a shared lock on a dependency is being requested,
\* the caller already holds both lock files of its own unit exclusive and the
\* guard of its own UnitLock is stored.
C12_OwnUnitFirst ==
    \A w \in Workers : tgt[w].m = "sh" =>
        /\ tgt[w].u # cl[w].unit
        /\ BuildingExclusive(w, cl[w].unit)
        /\ guard[w][cl[w].unit] = "pf"

\* C12 witness: a worker is blocked requesting a dependency's partial.lock shared.
C12_Witness ==
    \E w \in Workers :
        /\ tgt[w].m = "sh" /\ tgt[w].k = "partial" /\ idx[w] = 0
        /\ pc[w] \in {"wait", "os"}

\* The unit's two lock files as process p has them: not locked at the OS level,
\* flags clear.
Unlocked(p, u) ==
    \A k \in Kinds : LET l == <<p, <<u, k>>>>
                     IN os[l] = "un" /\ ~exclusive[l] /\ share_count[l] = 0
OtherHolders(w, u) ==
    {x \in Workers \ {w} : ProcOf(x) = ProcOf(w) /\ \E k \in Kinds : held[x][<<u, k>>] # "un"}

\* C14: round trip to unlocked.  When the guard of a CompilationLock's own unit
\* (stored by a successful lock, with or without a later rmeta_produced) has been
\* dropped, its unlocks returning Ok, and no other CompilationLock of the process
\* holds the unit, neither
\* lock file is held at the OS level and both RcFileLocks have exclusive false
\* and share_count 0.
C14_RoundTrip ==
    [][\A w \in Workers :
          (/\ pc[w] # "idle"
           /\ guard[w][cl[w].unit] # "none"
           /\ DropStep(w)
           /\ guard'[w][cl[w].unit] = "none"
           /\ OtherHolders(w, cl[w].unit) = {})
              => Unlocked(ProcOf(w), cl[w].unit)']_vars

\* C14 witness: the only CompilationLock of its process has locked and been
\* dropped without any OS error, its unit is unlocked in that process, and a
\* builder of another process has the unit now.
C14_Witness ==
    \E w, x \in Workers :
        /\ pc[w] = "done" /\ fails = 0
        /\ \A y \in Workers \ {w} : ProcOf(y) # ProcOf(w)
        /\ \A k \in Kinds : <<cl[w].unit, k>> \in interned[ProcOf(w)]
        /\ Unlocked(ProcOf(w), cl[w].unit)
        /\ Building(x, cl[w].unit)

\* C15: release is exactly-once.  Every unlock made by dropping a guard is made
\* on a lock the guard logically holds and whose file the process holds at the
\* OS level; it removes exactly one logical holder (the exclusive one, or one
\* sharer), and the OS lock is given up exactly when that was the last holder.
\* When the drop has ended no guard is left.
C15_ReleaseExactlyOnce ==
    /\ [](\A w \in Workers : pc[w] = "done" => \A u \in Units : guard[w][u] = "none")
    /\ [][\A w \in Workers :
             (pc[w] # "idle" /\ Pending(w) # {} /\ DropStep(w)) =>
                 LET l == DropLock(w)
                 IN /\ os[l] # "un"
                    /\ held[w][l[2]] # "un"
                    /\ IF exclusive[l]
                       THEN ~exclusive'[l] /\ share_count'[l] = 0 /\ os'[l] = "un"
                       ELSE /\ share_count[l] >= 1
                            /\ share_count'[l] = share_count[l] - 1
                            /\ ~exclusive'[l]
                            /\ (os'[l] = "un") <=> (share_count[l] = 1)]_vars

\* C15 witness: a dependent that took the dependency's partial.lock shared next
\* to the downgraded builder has been dropped, and the builder still holds it.
C15_Witness ==
    \E w, x \in Workers, u \in Units :
        /\ pc[w] = "done" /\ fails = 0 /\ <<u, x>> \in late[w]
        /\ BuildingNonExclusive(x, u) /\ ProcOf(x) = ProcOf(w)
        /\ share_count[<<ProcOf(x), <<u, "partial">>>>] = 1

SharedHolders(l) == {x \in Workers : ProcOf(x) = l[1] /\ held[x][l[2]] = "sh"}

C17_ReentrantLockIdempotent ==
    [][\A w \in Workers :
          LockAgain(w) => /\ pc'[w] = pc[w]
                          /\ UNCHANGED <<guard, held, exclusive, share_count, os>>]_vars

\* ------------------------------------------------------------ mode selection
\* C19: network filesystem.  A directory on a filesystem without advisory locks
\* gets the mode Disabled, whatever the flag, the unit count and the limits are;
\* for the build directory the call then cannot fail.
C19_NfsDisabled ==
    /\ (strategy.res = "Ok" /\ ws.nfs_artifact) => artifact_dir(strategy) = "Disabled"
    /\ (strategy.res # "none" /\ ws.nfs_build) =>
           strategy.res = "Ok" /\ build_dir(strategy) = "Disabled"

\* C19 witness: a separate build directory on NFS gets Disabled although the flag
\* is set and a build context is passed; the artifact directory is lockable.
C19_Witness ==
    /\ strategy.res = "Ok" /\ ~ws.same_dir /\ ws.nfs_build /\ ~ws.nfs_artifact
    /\ ws.bcx /\ ws.fine_grain_locking
    /\ build_dir(strategy) = "Disabled" /\ artifact_dir(strategy) = "Coarse"

\* C20 as stated: with the feature flag on, every directory that supports locks,
\* artifact directory and build directory, gets the mode Fine.
C20_FlagGivesFine ==
    (strategy.res = "Ok" /\ ws.fine_grain_locking) =>
        /\ ~ws.nfs_artifact => artifact_dir(strategy) = "Fine"
        /\ ~ws.nfs_build => build_dir(strategy) = "Fine"

\* C20 amended: with the feature flag on, a build directory that supports locks,
\* is not the artifact directory and is selected with a build context gets Fine,
\* whatever the unit count and the limits are, and the call cannot fail; the
\* artifact directory that supports locks gets Coarse.
C20_FlagGivesFineBuildDir ==
    /\ (strategy.res # "none" /\ ws.fine_grain_locking /\ ws.bcx /\ ~ws.same_dir
            /\ ~ws.nfs_build) =>
           strategy.res = "Ok" /\ strategy.build_dir = "Fine"
    /\ (strategy.res = "Ok" /\ ~ws.nfs_artifact) => artifact_dir(strategy) = "Coarse"

\* C20 witness: the flag gives Fine for the build directory with limits far too
\* low for the units and failing system calls.
C20_Witness ==
    /\ strategy.res = "Ok" /\ ws.fine_grain_locking /\ ws.bcx /\ ~ws.same_dir
    /\ ~ws.nfs_build /\ ~ws.nfs_artifact
    /\ ws.total_units = MaxTotalUnits /\ nofile.hard_limit = 0
    /\ ~sys.get /\ ~sys.set /\ ~sys.warn
    /\ strategy.build_dir = "Fine"

\* ------------------------------------------------- order of acquisition
\* C13: dependencies in a total order.  Within one CompilationLock::lock call the
\* shared locks on the dependency units are taken in ascending order of unit key.
C13_DependenciesAscending ==
    \A i, j \in 2..Len(locked) : i < j => locked[i] < locked[j]

\* ------------------------------------------------------------- interning
\* C18: interning is idempotent and thread-safe.  In every interleaving of
\* get_or_create_lock calls, two successful calls return the same object exactly
\* when they passed the same path; at most one file is opened and one object
\* created per path; an entry of the map is never removed or replaced.
C18_InternOnce ==
    /\ [](\A a, b \in returned : (a[2] = b[2]) <=> (a[3] = b[3]))
    /\ [](\A p \in Paths : opened[p] <= 1 /\ (locks[p] # 0 => opened[p] = 1))
    /\ [](objects = Cardinality({p \in Paths : locks[p] # 0}))
    /\ [][\A p \in Paths : locks[p] # 0 => locks'[p] = locks[p]]_vars

\* C18 witness: two threads got the same object for one path, a call with the
\* other path got another object, and a thread is inside a further call.
C18_Witness ==
    \E a, b, c \in returned :
        /\ a[1] # b[1] /\ a[2] = b[2] /\ a[3] = b[3]
        /\ c[2] # a[2] /\ c[3] # a[3]
        /\ \E t \in Threads : ipc[t] = "get" /\ icalls[t] = MaxCalls

\* The step in which determine_locking_strategy, or determine_locking_mode, returns.
StrategyReturns == strategy.res = "none" /\ strategy'.res # "none"
ModeReturns == locking_mode.res = "none" /\ locking_mode'.res # "none"
\* determine_locking_strategy gets as far as the file-descriptor limits.
ReadsLimits == ~ws.same_dir /\ ~ws.nfs_build /\ ws.bcx /\ ~ws.fine_grain_locking
Threshold == ws.total_units * 10
RaiseBranch == sys.get /\ nofile.soft_limit < Threshold /\ Threshold <= nofile.hard_limit
DecisionTable ==
    IF nofile.soft_limit >= Threshold THEN "Fine"
    ELSE IF nofile.hard_limit >= Threshold /\ sys.set THEN "Fine"
    ELSE "Coarse"

\* C21: the FD decision table.  With the flag off, the directory lockable and the
\* limit query succeeding, the mode is Fine if soft >= threshold, otherwise Fine if
\* hard >= threshold and the raise succeeded, otherwise Coarse; in
\* determine_locking_strategy for the build directory and in
\* determine_locking_mode.
C21_DecisionTable ==
    [][/\ (StrategyReturns /\ ReadsLimits /\ sys.get) =>
              strategy'.res = "Ok" /\ strategy'.build_dir = DecisionTable
       /\ (ModeReturns /\ sys.get) =>
              locking_mode'.res = "Ok" /\ locking_mode'.mode = DecisionTable]_vars

\* C22: FD-limit failures are non-fatal.  When the limit query fails, or the raise
\* of the soft limit fails, the call returns Ok with the mode Coarse.
FdLimitFailure == ~sys.get \/ (RaiseBranch /\ ~sys.set)
C22_FdFailureGivesCoarse ==
    [][/\ (StrategyReturns /\ ReadsLimits /\ FdLimitFailure) =>
              strategy'.res = "Ok" /\ strategy'.build_dir = "Coarse"
       /\ (ModeReturns /\ FdLimitFailure) =>
              locking_mode'.res = "Ok" /\ locking_mode'.mode = "Coarse"]_vars

\* What a call may do to the limits: one set_max_file_descriptors call with the
\* soft limit at the threshold and the hard limit as read, in the raise branch;
\* nothing anywhere else.
LimitsFrame(raises) ==
    IF raises
    THEN /\ set_calls' = Append(set_calls, [soft_limit |-> Threshold,
                                            hard_limit |-> nofile.hard_limit])
         /\ nofile' = IF sys.set
                      THEN [soft_limit |-> Threshold, hard_limit |-> nofile.hard_limit]
                      ELSE nofile
    ELSE set_calls' = set_calls /\ nofile' = nofile

\* C30: frame of the FD-limit raise.  Mode selection calls
\* set_max_file_descriptors only in the branch soft < threshold <= hard (flag off,
\* directory lockable, query succeeded), with soft_limit = total_units * 10 and
\* the hard limit as read; in every other branch no limit is touched.
C30_RaiseFrame ==
    [][/\ StrategyReturns => LimitsFrame(ReadsLimits /\ RaiseBranch)
       /\ ModeReturns => LimitsFrame(RaiseBranch)]_vars

\* C30 witness: determine_locking_strategy has raised the soft limit to the
\* threshold of the largest build, below the hard limit, and returned Fine.
C30_Witness ==
    /\ strategy.res = "Ok" /\ strategy.build_dir = "Fine" /\ locking_mode.res = "none"
    /\ ws.total_units = MaxTotalUnits
    /\ set_calls = <<[soft_limit |-> Threshold, hard_limit |-> nofile.hard_limit]>>
    /\ nofile.soft_limit = Threshold /\ nofile.hard_limit > Threshold

\* ------------------------------------------------- the dependency set
\* The units reachable from u by n or fewer dependency edges, n >= 1.
RECURSIVE ReachableWithin(_, _, _)
ReachableWithin(g, u, n) ==
    IF n = 1 THEN g[u]
    ELSE LET R == ReachableWithin(g, u, n - 1)
         IN R \cup UNION {g[d] : d \in R}
\* A path without repetition has fewer edges than there are units.
Reachable(g, u) == ReachableWithin(g, u, NumOrderUnits)

\* C29: the dependency set is the transitive closure.  The dependency_units of a
\* CompilationLock hold a unit d iff d is reachable from the lock's unit by one or
\* more dependency edges, and hold each such unit once.
C29_TransitiveClosure ==
    clock # NoClock =>
        LET deps == clock.dependency_units
        IN /\ {deps[i] : i \in 1..Len(deps)} = Reachable(unit_graph, clock.unit)
           /\ \A i, j \in 1..Len(deps) : deps[i] = deps[j] => i = j

\* C29 witness: a unit whose dependency is reachable along two paths (directly
\* and through two other units), each unit listed once.
C29_Witness ==
    /\ clock # NoClock /\ clock.unit = NumOrderUnits
    /\ unit_graph[NumOrderUnits] = {NumOrderUnits - 1, NumOrderUnits - 2}
    /\ unit_graph[NumOrderUnits - 1] = {1}
    /\ unit_graph[NumOrderUnits - 2] = {1}
    /\ Len(clock.dependency_units) = 3
    /\ Len(locked) = 4

\* ------------------------------------------------- rmeta_produced
\* Worker w's thread goes from pc value a to pc value b in this step.
Goes(w, a, b) == pc[w] = a /\ pc'[w] = b

\* C23: rmeta_produced is only effective from Building Exclusive.  A call is taken
\* up only with the unit in Building Exclusive and, returning Ok, leaves it in
\* Building Non-Exclusive; a call on a lock that was never locked returns an error
\* and a call on a unit already downgraded panics, and neither changes exclusive
\* or share_count of any RcFileLock.
C23_OnlyFromBuildingExclusive ==
    [][\A w \in Workers : pc[w] # "idle" =>
          /\ (pc[w] # "dg" /\ pc'[w] = "dg") =>
                 /\ pc[w] = "locked"
                 /\ BuildingExclusive(w, cl[w].unit)
                 /\ UNCHANGED <<exclusive, share_count>>
          /\ Goes(w, "dg", "downgraded") =>
                 /\ BuildingExclusive(w, cl[w].unit)
                 /\ BuildingNonExclusive(w, cl[w].unit)'
          /\ (Goes(w, "ready", "failed") \/ Goes(w, "downgraded", "panicked")) =>
                 UNCHANGED <<exclusive, share_count, os, held>>]_vars

\* C23 witness: rmeta_produced was called a second time and panicked, the unit's
\* partial.lock still shared by the builder and a dependent.
C23_Witness ==
    \E w \in Workers :
        /\ pc[w] = "panicked" /\ mtx[OwnPartial(w)] = -1
        /\ BuildingNonExclusive(w, cl[w].unit)
        /\ share_count[OwnPartial(w)] = 2

\* C24: frame of rmeta_produced.  A call that returns Ok changes only the unit's
\* own partial.lock, from exclusive to shared with share_count 1; the unit's
\* full.lock stays held exclusive, the locks on the dependency units and every
\* other lock and holder are as before.
C24_RmetaFrame ==
    [][\A w \in Workers : pc[w] # "idle" =>
          LET u == cl[w].unit
              l == OwnPartial(w)
              f == <<ProcOf(w), <<u, "full">>>>
          IN /\ Goes(w, "locked", "dg") => UNCHANGED <<exclusive, share_count, os, held, guard>>
             /\ Goes(w, "dg", "downgraded") =>
                    /\ exclusive[l] /\ ~exclusive'[l] /\ share_count'[l] = 1 /\ os'[l] = "sh"
                    /\ \A m \in Locks \ {l} :
                           /\ exclusive'[m] = exclusive[m]
                           /\ share_count'[m] = share_count[m]
                           /\ os'[m] = os[m]
                    /\ exclusive'[f] /\ os'[f] = "ex" /\ held'[w][<<u, "full">>] = "ex"
                    /\ \A d \in Units \ {u} : PairOf(w, d)' = PairOf(w, d)
                    /\ \A d \in all_dependency_units(unit_deps, u) :
                           IF ty[w] = "Full" THEN SharedFull(w, d)' ELSE SharedPartial(w, d)'
                    /\ \A x \in Workers \ {w} : held'[x] = held[x]
                    /\ guard' = guard]_vars

\* C24 witness: rmeta_produced has returned Ok for a unit locked with type Full
\* whose dependency is also held by another CompilationLock of the process.
C24_Witness ==
    \E w, x \in Workers :
        /\ pc[w] = "downgraded" /\ ty[w] = "Full" /\ cl[w].order # << >> /\ fails = 0
        /\ x # w /\ ProcOf(x) = ProcOf(w)
        /\ held[x][<<cl[w].order[1], "partial">>] # "un"

\* C25: downgrade never lets a writer in.  While RcFileLock::downgrade runs the
\* lock is never unheld: the flags say exclusive until they say shared, the mutex
\* is kept, and no other thread of the process is past the wait loop of lock()
\* or holds the lock.
C25_DowngradeKeepsLock ==
    \A w \in Workers : pc[w] = "dg" =>
        LET l == OwnPartial(w)
        IN /\ ~(~exclusive[l] /\ share_count[l] = 0)
           /\ mtx[l] = w
           /\ \A x \in Workers \ {w} :
                  (pc[x] # "idle" /\ ProcOf(x) = ProcOf(w)) =>
                      /\ held[x][l[2]] = "un"
                      /\ ~(pc[x] = "os" /\ LockOf(x) = l)

\* C25 witness: a downgrade is running while another thread of the process sleeps
\* in lock() on the same RcFileLock.
C25_Witness ==
    \E w, x \in Workers :
        /\ pc[w] = "dg" /\ pc[x] = "wait"
        /\ LockOf(x) = OwnPartial(w) /\ tgt[x].m = "ex"

\* C26: no stuck waiter.  A thread asleep on the condvar of an RcFileLock has its
\* wait condition true: when the condition turns false the sleepers are woken.
WaitCondition(w) ==
    IF tgt[w].m = "ex" THEN LockMustWait(LockOf(w)) ELSE SharedMustWait(LockOf(w))
C26_NoStuckWaiter == \A w \in Workers : pc[w] = "wait" => WaitCondition(w)

\* C27: state unchanged on OS error.  When the OS call inside RcFileLock::lock,
\* lock_shared, downgrade or unlock fails, the operation ends in an error (which
\* the unwrap in UnitLockGuard::drop turns into a panic) and exclusive and
\* share_count of every RcFileLock are what they were before the call.
OsCallFails(w) ==
    \/ Goes(w, "os", "failed")
    \/ Goes(w, "dg", "locked")
    \/ /\ pc[w] \in Dropping /\ pc'[w] \in {"panicked", "aborting"}
       /\ fails' = fails + 1
       /\ Pending(w) # {} /\ guard'[w][NextDrop(w)] = "none"
C27_UnchangedOnOsError ==
    [][\A w \in Workers : (pc[w] # "idle" /\ OsCallFails(w)) =>
          /\ fails' = fails + 1
          /\ UNCHANGED <<exclusive, share_count, os>>
          /\ \A l \in Locks : mtx'[l] \in {0, mtx[l]}]_vars

\* C27 witness: the OS unlock of a unit's partial.lock failed in a drop; the lock
\* is still exclusive and held at the OS level, and the guard is gone.
C27_Witness ==
    \E w \in Workers :
        /\ pc[w] = "panicked" /\ fails = 1
        /\ guard[w][cl[w].unit] = "none"
        /\ BuildingExclusive(w, cl[w].unit)
        /\ exclusive[OwnPartial(w)] /\ os[OwnPartial(w)] = "ex"

\* C28: one OS lock backs many shared holders.  lock_shared is inside the OS call
\* only with share_count 0; a sharer that joins or leaves while others hold the
\* lock changes share_count only; the OS lock of a live process is released, or
\* its release attempted, only by the exclusive holder or the last sharer.
Aborts == \E x \in Workers : pc[x] # "aborted" /\ pc'[x] = "aborted"
C28_OneOsLockManySharers ==
    /\ [](\A w \in Workers :
             (pc[w] = "os" /\ tgt[w].m = "sh") =>
                 share_count[LockOf(w)] = 0 /\ os[LockOf(w)] # "sh")
    /\ [][\A l \in Locks :
             /\ (share_count[l] >= 1 /\ share_count'[l] = share_count[l] + 1) =>
                    /\ os'[l] = os[l]
                    /\ \A w \in Workers :
                           (pc[w] # "idle" /\ ProcOf(w) = l[1] /\ held'[w][l[2]] # held[w][l[2]])
                               => pc[w] = "enter"
             /\ (share_count[l] > 1 /\ share_count'[l] < share_count[l] /\ ~Aborts) =>
                    os'[l] = os[l] /\ share_count'[l] = share_count[l] - 1
             /\ (os[l] # "un" /\ os'[l] = "un" /\ ~Aborts) =>
                    exclusive[l] \/ share_count[l] = 1
             /\ \A w \in Workers :
                    (pc[w] # "idle" /\ OsCallFails(w) /\ pc[w] \in Dropping /\ DropLock(w) = l) =>
                        exclusive[l] \/ share_count[l] <= 1]_vars

\* C28 witness: a CompilationLock that held a dependency's partial.lock shared
\* together with another holder of the process has been dropped; the other holder
\* keeps the file locked, share_count back at 1.
C28_Witness ==
    \E w, x \in Workers :
        /\ pc[w] = "done" /\ fails = 0 /\ cl[w].order # << >>
        /\ x # w /\ ProcOf(x) = ProcOf(w)
        /\ LET l == <<ProcOf(w), <<cl[w].order[1], "partial">>>>
           IN held[x][l[2]] = "sh" /\ share_count[l] = 1 /\ os[l] = "sh"

\* ------------------------------------------------- unified output directory
\* C31: unified output directory.  When target_dir and build_dir are the same
\* path the call returns Ok with build_dir None: is_unified_output_dir() is true,
\* build_dir() returns the mode of artifact_dir(), and that mode is Disabled or
\* Coarse, whatever the feature flag, the build context and the FD limits are.
C31_UnifiedOutputDir ==
    (strategy.res # "none" /\ ws.same_dir) =>
        /\ strategy.res = "Ok"
        /\ is_unified_output_dir(strategy)
        /\ build_dir(strategy) = artifact_dir(strategy)
        /\ build_dir(strategy) \in {"Disabled", "Coarse"}
        /\ build_dir(strategy) = (IF ws.nfs_artifact THEN "Disabled" ELSE "Coarse")

\* C31 witness: one directory, the feature flag on and limits that give Fine to
\* determine_locking_mode; the strategy is unified and Coarse.
C31_Witness ==
    /\ ws.same_dir /\ ws.fine_grain_locking /\ ws.bcx /\ ~ws.nfs_artifact
    /\ ws.total_units = MaxTotalUnits
    /\ locking_mode.res = "Ok" /\ locking_mode.mode = "Fine"
    /\ strategy.res = "Ok" /\ is_unified_output_dir(strategy)
    /\ build_dir(strategy) = "Coarse"

\* ------------------------------------------------- poisoned mutex
\* Worker w's thread runs an RcFileLock operation in this step and finds the
\* mutex poisoned: lock or lock_shared on entry or on waking, or the unlock of a
\* guard being dropped.
FindsPoisoned(w) ==
    \/ /\ pc[w] = "enter" /\ mtx[LockOf(w)] = -1
       /\ pc'[w] \notin {"enter", "aborted"}
    \/ /\ pc[w] \in Dropping /\ Pending(w) # {} /\ mtx[DropLock(w)] = -1
       /\ pc'[w] # "aborted"
       /\ guard'[w][NextDrop(w)] # guard[w][NextDrop(w)]

\* C32: a poisoned mutex is surfaced as an error value.  Every operation that
\* finds the mutex of an RcFileLock poisoned ends with an error for its caller:
\* the thread does not panic and the process does not abort.
C32_PoisonIsError ==
    [][\A w \in Workers :
          (pc[w] # "idle" /\ FindsPoisoned(w)) => pc'[w] \notin {"panicked", "aborting"}]_vars

\* ------------------------------------------------- LayoutTree (layout.rs)
\* A tree text is its root line and the entry lines below it. An entry line is
\* written as the pieces the code takes it apart into: the indentation (one
\* four-character piece per enclosing directory), the connector, and the rest
\* of the line as a sequence of characters. The box-drawing pieces are written
\* in ASCII here: "|-- " and "+-- " for the two connectors, "|   " and "    "
\* for the two indentation pieces. The annotation [target_platform=linux] and
\* the verbatim prefix \\?\ each stand as one character of the sequence.
MaxLines == 3
MaxIndent == 1

Tee == "|-- "
Ell == "+-- "
Bar == "|   "
Blank == "    "
Space == " "
PlatformLinux == "[target_platform=linux]"
VERBATIM_PREFIX == "\\\\?\\"

TargetOs == {"linux", "macos"}
NameChars == <<"a", "b", "c">>
Roots == {<<"[ROOT]">>, <<VERBATIM_PREFIX, "C:">>}
Rests == {<<"a">>, <<"b">>, <<"c">>, <<"a", Space, "b">>, <<"b", Space, PlatformLinux>>}
Prefixes == UNION {[1..n -> {Bar, Blank}] : n \in 0..MaxIndent}
Lines == [prefix : Prefixes, connector : {Tee, Ell}, rest : Rests]
Texts == [root : Roots, lines : UNION {[1..n -> Lines] : n \in 0..MaxLines}]

LayoutTreeNode(file) == [path |-> file, children |-> <<>>]

\* n.split_once(' ').map_or(n, |(v, _)| v)
RECURSIVE split_once_first(_)
split_once_first(n) ==
    IF n = <<>> \/ Head(n) = Space THEN <<>>
    ELSE <<Head(n)>> \o split_once_first(Tail(n))

\* The target_platform capture of a line and whether it names the build's platform.
is_active(line, cfg) ==
    IF \E i \in 1..Len(line.rest) : line.rest[i] = PlatformLinux
    THEN cfg = "linux"
    ELSE TRUE

\* get_line_info: the prefix ends after the connector, and every piece of it
\* is four characters long.
get_line_info(line, cfg) ==
    LET prefix_chars == 4 * Len(line.prefix) + 4
    IN [level |-> prefix_chars \div 4,
        name |-> split_once_first(line.rest),
        active |-> is_active(line, cfg)]

\* parse_level returns the parent with its children pushed and the lines left
\* in the iterator.
RECURSIVE parse_level(_, _, _, _)
parse_level(parent, lines, parent_level, cfg) ==
    IF lines = <<>> THEN [node |-> parent, lines |-> lines]
    ELSE LET info == get_line_info(Head(lines), cfg)
             rest == Tail(lines)
         IN IF info.level <= parent_level THEN [node |-> parent, lines |-> lines]
            ELSE IF ~info.active THEN parse_level(parent, rest, parent_level, cfg)
            ELSE LET current_path == Append(parent.path, info.name)
                     is_directory ==
                         IF rest # <<>>
                         THEN get_line_info(Head(rest), cfg).level > info.level
                         ELSE FALSE
                 IN IF is_directory
                    THEN LET dir == parse_level(LayoutTreeNode(current_path), rest,
                                                info.level, cfg)
                         IN parse_level([parent EXCEPT !.children = Append(@, dir.node)],
                                        dir.lines, parent_level, cfg)
                    ELSE parse_level([parent EXCEPT !.children =
                                          Append(@, LayoutTreeNode(current_path))],
                                     rest, parent_level, cfg)

parse(text, cfg) ==
    parse_level([path |-> <<text.root>>, children |-> <<>>], text.lines, -1, cfg).node

\* Path::file_name of a path made by join: its last component.
file_name(path) == path[Len(path)]

\* The order of OsStr::cmp on two names.
CharRank(c) == CHOOSE i \in 1..Len(NameChars) : NameChars[i] = c
RECURSIVE NameLess(_, _)
NameLess(a, b) ==
    IF b = <<>> THEN FALSE
    ELSE IF a = <<>> THEN TRUE
    ELSE IF Head(a) = Head(b) THEN NameLess(Tail(a), Tail(b))
    ELSE CharRank(Head(a)) < CharRank(Head(b))
NameLeq(a, b) == ~NameLess(b, a)

\* A format_children that writes the children in the order they were pushed:
sort_by_file_name_none(children) == children

\* children.sort_by(|a, b| a.path.file_name().cmp(&b.path.file_name())): a
\* stable sort, here by insertion.
RECURSIVE insert_sorted(_, _)
insert_sorted(sorted, child) ==
    IF sorted = <<>> THEN <<child>>
    ELSE IF NameLess(file_name(child.path), file_name(Head(sorted).path))
         THEN <<child>> \o sorted
         ELSE <<Head(sorted)>> \o insert_sorted(Tail(sorted), child)
RECURSIVE sort_from(_, _, _)
sort_from(children, i, sorted) ==
    IF i > Len(children) THEN sorted
    ELSE sort_from(children, i + 1, insert_sorted(sorted, children[i]))
sort_by_file_name(children) == sort_from(children, 1, <<>>)

\* format_children: the lines written for the children of node, from child i on.
RECURSIVE format_children_from(_, _, _)
format_children_from(children, prefix, i) ==
    IF i > Len(children) THEN <<>>
    ELSE LET child == children[i]
             is_last == i = Len(children)
             connector == IF is_last THEN Ell ELSE Tee
             next_level_prefix == IF is_last THEN Blank ELSE Bar
             line == [prefix |-> prefix, connector |-> connector,
                      rest |-> file_name(child.path)]
             below == IF child.children # <<>>
                      THEN format_children_from(sort_by_file_name(child.children),
                                                Append(prefix, next_level_prefix), 1)
                      ELSE <<>>
         IN <<line>> \o below \o format_children_from(children, prefix, i + 1)
format_children(node, prefix) ==
    format_children_from(sort_by_file_name(node.children), prefix, 1)

adjust_canonicalization(p) ==
    IF p # <<>> /\ Head(p) = VERBATIM_PREFIX THEN Tail(p) ELSE p

\* Display::fmt, which to_string calls.
to_string(t) ==
    [root |-> adjust_canonicalization(t.path[1]), lines |-> format_children(t, <<>>)]

NoTree == LayoutTreeNode(<<>>)
NoText == [root |-> <<>>, lines |-> <<>>]

InitLayout ==
    /\ target_os \in TargetOs
    /\ input \in Texts
    /\ layout_tree = NoTree
    /\ result_string = NoText
    /\ lpc = "text"
    /\ LockOff /\ ModeOff /\ OrderOff /\ InternOff

call_parse ==
    /\ lpc = "text"
    /\ layout_tree' = parse(input, target_os)
    /\ lpc' = "parsed"
    /\ UNCHANGED <<lock_vars, mode_vars, order_vars, intern_vars, target_os, input,
                   result_string>>

call_to_string ==
    /\ lpc = "parsed"
    /\ result_string' = to_string(layout_tree)
    /\ lpc' = "printed"
    /\ UNCHANGED <<lock_vars, mode_vars, order_vars, intern_vars, target_os, input,
                   layout_tree>>

NextLayout == call_parse \/ call_to_string

LayoutSpec == InitLayout /\ [][NextLayout]_vars

\* --- what a tree text is, read off the text alone
LevelOf(line) == Len(line.prefix) + 1
\* The lines of the same directory as line i: j is a sibling of i when both are
\* at one level and no line between them is at a smaller level.
Siblings(ls, i, j) ==
    /\ i < j /\ LevelOf(ls[i]) = LevelOf(ls[j])
    /\ \A k \in (i + 1)..(j - 1) : LevelOf(ls[k]) > LevelOf(ls[i])
\* The enclosing entry of line i at depth d: the last line before i at level d.
Ancestor(ls, i, d) ==
    CHOOSE k \in 1..(i - 1) :
        /\ LevelOf(ls[k]) = d
        /\ \A m \in (k + 1)..(i - 1) : LevelOf(ls[m]) > d
\* The text is drawn the way the tree command draws a tree: levels go down one
\* at a time, the last entry of a directory has the corner connector, and the
\* indentation shows a bar under every enclosing entry that is not the last.
Drawn(text) ==
    LET ls == text.lines
    IN /\ ls # <<>> => LevelOf(ls[1]) = 1
       /\ \A i \in 1..(Len(ls) - 1) : LevelOf(ls[i + 1]) <= LevelOf(ls[i]) + 1
       /\ \A i \in 1..Len(ls) :
             /\ (ls[i].connector = Ell) <=> ~\E j \in 1..Len(ls) : Siblings(ls, i, j)
             /\ \A d \in 1..Len(ls[i].prefix) :
                   ls[i].prefix[d] =
                       (IF ls[Ancestor(ls, i, d)].connector = Ell THEN Blank ELSE Bar)
\* The entries of every directory are in ascending order of file name.
Sorted(text) ==
    LET ls == text.lines
    IN \A i, j \in 1..Len(ls) :
          Siblings(ls, i, j) => NameLeq(split_once_first(ls[i].rest),
                                        split_once_first(ls[j].rest))
\* Every entry is a file name: no space, no annotation; and the root line has
\* no verbatim prefix.
Plain(text) ==
    /\ text.root = <<>> \/ Head(text.root) # VERBATIM_PREFIX
    /\ \A i \in 1..Len(text.lines) :
          \A k \in 1..Len(text.lines[i].rest) :
              text.lines[i].rest[k] \notin {Space, PlatformLinux}

====
